---- MODULE Spec2Model ----
(***************************************************************************)
(* Model of app-with-lambda.py: the Streamlit chat client.                 *)
(*                                                                         *)
(* One action is one script run of main() caused by one widget event (the  *)
(* "New Chat" button, the "Previous Chats" selectbox, the chat input),     *)
(* together with the rerun that st.rerun() starts, up to the point where   *)
(* the script waits for the next event.  st.session_state is the state.    *)
(*                                                                         *)
(* Python values that cross the gateway are tagged tuples:                 *)
(*   <<"str", a>>   a str, a an atomic text                                *)
(*   <<"text", t>>  a str given by the sequence t of its JSON lexemes      *)
(*   <<"num", a>>, <<"null", a>>, <<"bool", a>>                            *)
(*   <<"arr", elems>>, <<"obj", members>>  (members: <<key, value>> pairs) *)
(*   <<"uuid", n>>  the str of the n-th uuid4 the process drew             *)
(***************************************************************************)
EXTENDS Integers, Sequences, FiniteSets, TLC

VARIABLES
  session,            \* st.session_state.session: [id, name]
  previous_sessions,  \* st.session_state.previous_sessions: list of sessions
  chat_memory,        \* st.session_state.chat_memory: id -> list of messages
  nextId,             \* number of uuid4 values drawn so far
  clock,              \* what strftime("%b %d, %H:%M") gives now
  maxCounter,         \* history: largest counter a New Chat has used in a name
  evicted,            \* history: ids removed by previous_sessions.pop(0)
  submits,            \* history: number of chat inputs submitted
  lastRun             \* history: what the last script run did

vars == <<session, previous_sessions, chat_memory, nextId, clock,
          maxCounter, evicted, submits, lastRun>>

(***************************************************************************)
(* Bounds of the model.                                                    *)
(***************************************************************************)
\* New Chat presses explored by Spec (enough to fill the history and evict).
MaxSessions == 11
\* New Chat presses explored by SpecChat.
MaxChatSessions == 2
\* Ticks of the wall-clock minute.
MaxClock == 1
\* Chat inputs explored by SpecChat.
MaxSubmits == 2
\* New Chat presses explored by SpecAnyName.
MaxNameSessions == 4

\* "if len(st.session_state.previous_sessions) > 10: # Limit history"
HistoryLimit == 10

(***************************************************************************)
(* Session names.  A name is <<counter, timestamp>>: "Chat {counter} –     *)
(* {timestamp}"; the first session's literal "Current Chat" is <<0, 0>>    *)
(* (no f-string name has counter 0).                                       *)
(***************************************************************************)
CurrentChatName == <<0, 0>>

Counter(name) == name[1]

Range(seq) == {seq[i] : i \in 1..Len(seq)}

make_friendly_name(prev, timestamp) == <<Len(prev) + 1, timestamp>>

\* uuid.uuid4(): the n-th value drawn, taken to differ from all earlier ones.
uuid4(n) == n

(***************************************************************************)
(* Lines 291-294: archive the current session.                             *)
(***************************************************************************)
\* pop() in place of pop(0).
PopNewest(list) == SubSeq(list, 1, Len(list) - 1)

\* previous_sessions.pop(0)
PopOldest(list) == Tail(list)

\* Lines 292-294 without the test of line 291.
ArchiveAlways(prev, cur) ==
  LET appended == Append(prev, cur)
  IN  IF Len(appended) > HistoryLimit THEN PopOldest(appended) ELSE appended

Archive(prev, cur) ==
  IF cur \notin Range(prev)
  THEN LET appended == Append(prev, cur)
       IN  IF Len(appended) > HistoryLimit THEN PopOldest(appended)
                                           ELSE appended
  ELSE prev

(***************************************************************************)
(* JSON texts.  A text is the sequence of its lexemes:                     *)
(*   <<"punct", c>>   one of { } [ ] : ,                                   *)
(*   <<"strlit", v>>  a string literal, v the str it denotes               *)
(*   <<"num", a>>     a number literal                                     *)
(*   <<"lit", a>>     null, true or false                                  *)
(*   <<"word", a>>    anything else (no JSON lexeme)                       *)
(***************************************************************************)
IsStr(v) == v[1] \in {"str", "text", "uuid"}

\* The lexemes of a str: those it is given by, or one bare word.
Lexemes(v) == IF v[1] = "text" THEN v[2] ELSE << <<"word", v[2]>> >>

IsPunct(t, i, c) == i <= Len(t) /\ t[i][1] = "punct" /\ t[i][2] = c

ParseFail == [ok |-> FALSE, val |-> <<"null", "null">>, next |-> 0]

ParseOk(v, n) == [ok |-> TRUE, val |-> v, next |-> n]

RECURSIVE ParseValue(_, _), ParseMembers(_, _, _), ParseElements(_, _, _)

\* The JSON value that starts at lexeme i of t, and where it ends.
ParseValue(t, i) ==
  IF i > Len(t) THEN ParseFail
  ELSE CASE t[i][1] = "strlit" -> ParseOk(t[i][2], i + 1)
         [] t[i][1] = "num"    -> ParseOk(<<"num", t[i][2]>>, i + 1)
         [] t[i][1] = "lit"    ->
              ParseOk(<<IF t[i][2] = "null" THEN "null" ELSE "bool", t[i][2]>>,
                      i + 1)
         [] IsPunct(t, i, "{") ->
              IF IsPunct(t, i + 1, "}") THEN ParseOk(<<"obj", <<>> >>, i + 2)
              ELSE ParseMembers(t, i + 1, <<>>)
         [] IsPunct(t, i, "[") ->
              IF IsPunct(t, i + 1, "]") THEN ParseOk(<<"arr", <<>> >>, i + 2)
              ELSE ParseElements(t, i + 1, <<>>)
         [] OTHER -> ParseFail

ParseMembers(t, i, acc) ==
  IF i > Len(t) \/ t[i][1] # "strlit" \/ ~IsPunct(t, i + 1, ":") THEN ParseFail
  ELSE LET v == ParseValue(t, i + 2)
       IN  IF ~v.ok THEN ParseFail
           ELSE LET members == Append(acc, <<t[i][2], v.val>>)
                IN  IF IsPunct(t, v.next, ",")
                    THEN ParseMembers(t, v.next + 1, members)
                    ELSE IF IsPunct(t, v.next, "}")
                    THEN ParseOk(<<"obj", members>>, v.next + 1)
                    ELSE ParseFail

ParseElements(t, i, acc) ==
  LET v == ParseValue(t, i)
  IN  IF ~v.ok THEN ParseFail
      ELSE LET elems == Append(acc, v.val)
           IN  IF IsPunct(t, v.next, ",")
               THEN ParseElements(t, v.next + 1, elems)
               ELSE IF IsPunct(t, v.next, "]")
               THEN ParseOk(<<"arr", elems>>, v.next + 1)
               ELSE ParseFail

\* The whole text is one JSON value (else json.JSONDecodeError).
ParseText(t) ==
  LET r == ParseValue(t, 1)
  IN  IF r.ok /\ r.next = Len(t) + 1 THEN r ELSE ParseFail

\* json.loads(s): TypeError unless s is a str, JSONDecodeError on a bad text.
json_loads(s) ==
  IF ~IsStr(s) THEN [exc |-> "TypeError", val |-> <<"null", "null">>]
  ELSE LET r == ParseText(Lexemes(s))
       IN  IF r.ok THEN [exc |-> "none", val |-> r.val]
           ELSE [exc |-> "JSONDecodeError", val |-> <<"null", "null">>]

\* dict: key in d, and d.get(key, default) (the last of equal keys wins).
HasKey(d, key) == \E i \in 1..Len(d[2]) : d[2][i][1] = <<"str", key>>

DictGet(d, key, default) ==
  LET hits == {i \in 1..Len(d[2]) : d[2][i][1] = <<"str", key>>}
  IN  IF hits = {} THEN default
      ELSE d[2][CHOOSE i \in hits : \A j \in hits : j <= i][2]

\* Atomic texts of the model that have "body" as a substring.
BodyTexts == {"body", "nobody"}

\* "body" in data, for a data that is no dict: "yes", "no" or TypeError.
BodyIn(data) ==
  CASE data[1] = "obj" -> IF HasKey(data, "body") THEN "yes" ELSE "no"
    [] data[1] = "arr" ->
         IF \E i \in 1..Len(data[2]) : data[2][i] = <<"str", "body">>
         THEN "yes" ELSE "no"
    [] data[1] = "str" -> IF data[2] \in BodyTexts THEN "yes" ELSE "no"
    [] data[1] = "text" ->
         IF \E i \in 1..Len(data[2]) :
              \/ /\ data[2][i][1] = "word"
                 /\ data[2][i][2] \in BodyTexts
              \/ /\ data[2][i][1] = "strlit"
                 /\ data[2][i][2][1] = "str"
                 /\ data[2][i][2][2] \in BodyTexts
         THEN "yes" ELSE "no"
    [] data[1] = "uuid" -> "no"
    [] OTHER -> "TypeError"

(***************************************************************************)
(* Lines 16-44.  http is what requests.post gives: a ConnectionError, a    *)
(* Timeout, or a Response with a status and a body text.  legacy: the      *)
(* installed requests raises a plain ValueError from Response.json()       *)
(* (before 2.27) instead of requests.exceptions.JSONDecodeError.           *)
(***************************************************************************)
SorryText == <<"str", "Sorry, I'm having trouble connecting to the service.">>
InvalidText == <<"str", "Error: Invalid response format.">>
NoContentText == <<"str", "No response content received.">>

Returned(text, sid) == [exc |-> "none", text |-> text, sid |-> sid]

Raised(exc) == [exc |-> exc, text |-> <<"null", "null">>, sid |-> <<"null", "null">>]

\* Line 40 returning the caller's session id whatever the payload holds.
ExtractCallerSid(inner_data, session_id) ==
  IF inner_data[1] # "obj" THEN Raised("AttributeError")
  ELSE Returned(DictGet(inner_data, "response", NoContentText), session_id)

\* Line 40.
Extract(inner_data, session_id) ==
  IF inner_data[1] # "obj" THEN Raised("AttributeError")
  ELSE Returned(DictGet(inner_data, "response", NoContentText),
                DictGet(inner_data, "session_id", session_id))

\* Lines 32-36 without the except clause.
OnDecodeErrorReraise(session_id) == Raised("JSONDecodeError")

\* Lines 34-36: except json.JSONDecodeError.
OnDecodeError(session_id) == Returned(InvalidText, session_id)

\* Lines 31-40.
Unwrap(data, session_id) ==
  LET has == BodyIn(data)
  IN  CASE has = "TypeError" -> Raised("TypeError")
        [] has = "no" -> Extract(data, session_id)
        [] data[1] # "obj" -> Raised("TypeError")
        [] OTHER ->
             LET inner == json_loads(DictGet(data, "body", <<"null", "null">>))
             IN  CASE inner.exc = "JSONDecodeError" -> OnDecodeError(session_id)
                   [] inner.exc = "TypeError" -> Raised("TypeError")
                   [] OTHER -> Extract(inner.val, session_id)

\* response.raise_for_status()
RaisesForStatus(status) == 400 <= status /\ status < 600

call_bedrock_agent(user_input, session_id, http, legacy) ==
  IF http.kind \in {"ConnectionError", "Timeout"}
  THEN Returned(SorryText, session_id)
  ELSE IF RaisesForStatus(http.status) THEN Returned(SorryText, session_id)
  ELSE LET data == ParseText(http.body)
       IN  IF ~data.ok
           THEN IF legacy THEN Raised("ValueError")
                          ELSE Returned(SorryText, session_id)
           ELSE Unwrap(data.val, session_id)

(***************************************************************************)
(* The gateway's answers the model draws from.  json.dumps, as the gateway *)
(* applies it, is Encode.  A payload is given by its optional "response",  *)
(* its optional "session_id" (sequences of length 0 or 1) and its other    *)
(* members.                                                                *)
(***************************************************************************)
Punct(c) == <<"punct", c>>

Str(a) == <<"str", a>>

RECURSIVE Encode(_), EncodeElements(_, _), EncodeMembers(_, _)

Encode(v) ==
  CASE IsStr(v) -> << <<"strlit", v>> >>
    [] v[1] = "num" -> << <<"num", v[2]>> >>
    [] v[1] = "arr" -> <<Punct("[")>> \o EncodeElements(v[2], 1) \o <<Punct("]")>>
    [] v[1] = "obj" -> <<Punct("{")>> \o EncodeMembers(v[2], 1) \o <<Punct("}")>>
    [] OTHER -> << <<"lit", v[2]>> >>

EncodeElements(es, i) ==
  IF i > Len(es) THEN <<>>
  ELSE (IF i > 1 THEN <<Punct(",")>> ELSE <<>>)
         \o Encode(es[i]) \o EncodeElements(es, i + 1)

EncodeMembers(ms, i) ==
  IF i > Len(ms) THEN <<>>
  ELSE (IF i > 1 THEN <<Punct(",")>> ELSE <<>>)
         \o Encode(ms[i][1]) \o <<Punct(":")>> \o Encode(ms[i][2])
         \o EncodeMembers(ms, i + 1)

Payloads == <<
  [response |-> <<Str("X")>>,       session_id |-> <<Str("S2")>>, more |-> <<>>],
  [response |-> <<Str("X")>>,       session_id |-> <<>>,          more |-> <<>>],
  [response |-> <<>>,               session_id |-> <<Str("S2")>>, more |-> <<>>],
  [response |-> <<>>,               session_id |-> <<>>,          more |-> <<>>],
  [response |-> << <<"num", "5">> >>, session_id |-> <<Str("S2")>>, more |-> <<>>],
  [response |-> <<Str("X")>>,       session_id |-> <<Str("S2")>>,
   more |-> << <<Str("body"), Str("nobody")>> >>] >>

\* The payloads that have no "body" member of their own.
PlainPayloads == {p \in 1..Len(Payloads) : Payloads[p].more = <<>>}

Object(p) ==
  <<"obj",
    [i \in 1..Len(Payloads[p].response) |->
        <<Str("response"), Payloads[p].response[i]>>]
    \o [i \in 1..Len(Payloads[p].session_id) |->
        <<Str("session_id"), Payloads[p].session_id[i]>>]
    \o Payloads[p].more>>

\* The string the gateway puts in "body".
EncodedString(v) == <<"text", Encode(v)>>

Envelope(body) == <<"obj", << <<Str("body"), body>> >> >>

Answer(class, status, body, p) ==
  [kind |-> "Response", status |-> status, body |-> body, class |-> class, p |-> p]

Failure(kind) ==
  [kind |-> kind, status |-> 0, body |-> <<>>, class |-> "transport", p |-> 0]

Truncated(t) == SubSeq(t, 1, Len(t) - 1)

Responses ==
  << Failure("ConnectionError"),
     Failure("Timeout"),
     Answer("status", 500, Encode(Object(1)), 0),
     Answer("status", 404, <<>>, 0),
     Answer("status", 300, Encode(Object(1)), 0),
     Answer("top_not_object", 200, Encode(<<"arr", <<>> >>), 0),
     Answer("top_not_object", 200, Encode(<<"arr", <<Str("body")>> >>), 0),
     Answer("top_not_object", 200, Encode(Str("nobody")), 0),
     Answer("top_not_object", 200, Encode(Str("hi")), 0),
     Answer("top_not_object", 200, Encode(<<"num", "5">>), 0),
     Answer("top_not_object", 200, Encode(<<"null", "null">>), 0),
     Answer("body_not_string", 200, Encode(Envelope(<<"num", "5">>)), 0),
     Answer("body_not_string", 200, Encode(Envelope(Object(1))), 0),
     Answer("body_not_string", 200, Encode(Envelope(<<"null", "null">>)), 0),
     Answer("body_invalid_json", 200, Encode(Envelope(Str("oops"))), 0),
     Answer("body_invalid_json", 200,
            Encode(Envelope(<<"text", Truncated(Encode(Object(1)))>>)), 0),
     Answer("body_invalid_json", 200, Encode(Envelope(<<"text", <<>> >>)), 0),
     Answer("body_non_object", 200,
            Encode(Envelope(EncodedString(<<"arr", <<>> >>))), 0),
     Answer("body_non_object", 200,
            Encode(Envelope(EncodedString(<<"null", "null">>))), 0),
     Answer("body_non_object", 200,
            Encode(Envelope(EncodedString(Str("hi")))), 0),
     Answer("not_json", 200, <<>>, 0),
     Answer("not_json", 200, << <<"word", "<html>">> >>, 0) >>
  \o [p \in 1..Len(Payloads) |->
        Answer(IF p \in PlainPayloads THEN "direct" ELSE "direct_with_body",
               200, Encode(Object(p)), p)]
  \o [p \in 1..Len(Payloads) |->
        Answer("wrapped", 200, Encode(Envelope(EncodedString(Object(p)))), p)]

Prompts == {"a"}

(***************************************************************************)
(* Lines 331-333: the transcript of the current session exists.            *)
(***************************************************************************)
\* Line 333 without the test of line 332.
EnsureTranscriptReset(mem, id) ==
  [k \in DOMAIN mem \cup {id} |-> IF k = id THEN <<>> ELSE mem[k]]

EnsureTranscript(mem, id) ==
  IF id \in DOMAIN mem THEN mem
  ELSE [k \in DOMAIN mem \cup {id} |-> IF k = id THEN <<>> ELSE mem[k]]

\* A script run that makes no gateway call.
NoCall == [exc |-> "nocall", text |-> <<"null", "null">>, sid |-> <<"null", "null">>]

NoRun(op) == [op |-> op, exc |-> "none", hit |-> TRUE, out |-> 0, ret |-> NoCall]

Init ==
  /\ session = [id |-> uuid4(0), name |-> CurrentChatName]
  /\ previous_sessions = <<>>
  /\ chat_memory = EnsureTranscript(<<>>, uuid4(0))
  /\ nextId = 1
  /\ clock = 0
  /\ maxCounter = 0
  /\ evicted = {}
  /\ submits = 0
  /\ lastRun = NoRun("init")

\* The wall clock reaches the next minute.
Tick ==
  /\ clock < MaxClock
  /\ clock' = clock + 1
  /\ UNCHANGED <<session, previous_sessions, chat_memory, nextId,
                 maxCounter, evicted, submits, lastRun>>

(***************************************************************************)
(* Lines 290-298, then the rerun down to line 333.                         *)
(***************************************************************************)
NewChat(cap) ==
  /\ nextId <= cap
  /\ LET archived == Archive(previous_sessions, session)
         name     == make_friendly_name(archived, clock)
         new      == [id |-> uuid4(nextId), name |-> name]
     IN  /\ previous_sessions' = archived
         /\ session' = new
         /\ chat_memory' = EnsureTranscript(chat_memory, new.id)
         /\ maxCounter' = IF Counter(name) > maxCounter THEN Counter(name)
                                                       ELSE maxCounter
         /\ evicted' = evicted \cup
              ({s.id : s \in Range(previous_sessions)} \
                 {s.id : s \in Range(archived)})
  /\ nextId' = nextId + 1
  /\ lastRun' = NoRun("new")
  /\ UNCHANGED <<clock, submits>>

(***************************************************************************)
(* Lines 302-323, then the rerun down to line 333.                         *)
(***************************************************************************)
SessionNames(prev, cur) ==
  LET names == [i \in 1..Len(prev) |-> prev[i].name]
  IN  IF cur.name \notin Range(names) THEN Append(names, cur.name) ELSE names

\* next(...) with the first history entry as its default.
LookupDefaultFirst(prev, chosen_name, cur) ==
  LET hits == {i \in 1..Len(prev) : prev[i].name = chosen_name}
  IN  IF hits = {} THEN prev[1]
      ELSE prev[CHOOSE i \in hits : \A j \in hits : i <= j]

\* next((s for s in previous_sessions if s["name"] == chosen_name), session)
Lookup(prev, chosen_name, cur) ==
  LET hits == {i \in 1..Len(prev) : prev[i].name = chosen_name}
  IN  IF hits = {} THEN cur
      ELSE prev[CHOOSE i \in hits : \A j \in hits : i <= j]

Switch(chosen_name) ==
  /\ previous_sessions # <<>>
  /\ chosen_name # session.name
  /\ session' = Lookup(previous_sessions, chosen_name, session)
  /\ chat_memory' = EnsureTranscript(chat_memory, session'.id)
  /\ lastRun' = [NoRun("switch") EXCEPT
                   !.hit = \E s \in Range(previous_sessions) : s.name = chosen_name]
  /\ UNCHANGED <<previous_sessions, nextId, clock, maxCounter, evicted, submits>>

\* The selectbox returns one of its options.  Its options or its default
\* index differ after every New Chat and every switch, which makes it a new
\* widget showing the current name, so a rerun never switches again.
SwitchSession ==
  \E chosen_name \in Range(SessionNames(previous_sessions, session)) :
    Switch(chosen_name)

(***************************************************************************)
(* Lines 331-333 and 351-371.  An exception that nothing catches ends the  *)
(* script run where it is raised; st.session_state keeps what was written. *)
(***************************************************************************)
Message(role, content) == [role |-> role, content |-> content]

AppendMessage(mem, id, msg) == [mem EXCEPT ![id] = Append(@, msg)]

Submit ==
  /\ submits < MaxSubmits
  /\ \E prompt \in Prompts, k \in 1..Len(Responses), legacy \in BOOLEAN :
       LET session_id == session.id
           asked == AppendMessage(EnsureTranscript(chat_memory, session_id),
                                  session_id, Message("user", Str(prompt)))
           ret   == call_bedrock_agent(Str(prompt), <<"uuid", session_id>>,
                                       Responses[k], legacy)
           \* line 364: response_text.replace is a method of str
           exc   == IF ret.exc # "none" THEN ret.exc
                    ELSE IF ~IsStr(ret.text) THEN "AttributeError"
                    ELSE "none"
       IN  /\ chat_memory' =
                IF exc = "none"
                THEN AppendMessage(asked, session_id,
                                   Message("assistant", ret.text))
                ELSE asked
           /\ lastRun' = [op |-> "submit", exc |-> exc, hit |-> TRUE,
                          out |-> k, ret |-> ret]
  /\ submits' = submits + 1
  /\ UNCHANGED <<session, previous_sessions, nextId, clock, maxCounter, evicted>>

\* The switch of lines 319-323 for any chosen name.
SwitchAnyName ==
  \E chosen_name \in {CurrentChatName}
       \cup ((1..(HistoryLimit + 1)) \X (0..MaxClock)) :
    Switch(chosen_name)

Next ==
  \/ Tick
  \/ NewChat(MaxSessions)
  \/ SwitchSession

NextChat ==
  \/ NewChat(MaxChatSessions)
  \/ SwitchSession
  \/ Submit

NextAnyName ==
  \/ Tick
  \/ NewChat(MaxNameSessions)
  \/ SwitchAnyName

Spec == Init /\ [][Next]_vars

SpecChat == Init /\ [][NextChat]_vars

SpecAnyName == Init /\ [][NextAnyName]_vars

(***************************************************************************)
(* Properties.                                                             *)
(***************************************************************************)
IsPrefix(a, b) == Len(a) <= Len(b) /\ SubSeq(b, 1, Len(a)) = a

NewChatStep == nextId' = nextId + 1

SubmitStep == submits' = submits + 1

Ids(list) == {s.id : s \in Range(list)}

Class(k) == Responses[k].class

CallerId == <<"uuid", session.id>>

\* C1: the history list never holds more than 10 sessions, and a New Chat
\* that archives the current session into a full list removes exactly the
\* entry at index 0 and keeps the order of the others.
C1_HistoryBoundedOldestEvicted ==
  /\ [](Len(previous_sessions) <= HistoryLimit)
  /\ [][(/\ NewChatStep
         /\ session \notin Range(previous_sessions)
         /\ Len(previous_sessions) = HistoryLimit)
        => previous_sessions' = Tail(previous_sessions) \o <<session>>]_vars

C1_Witness ==
  /\ lastRun.op = "new"
  /\ Len(previous_sessions) = HistoryLimit
  /\ evicted = {uuid4(0)}

\* The gateway call fails in transport: no response (network error,
\* timeout), or a response whose status is not 2xx.
TransportFailure(k) ==
  \/ Responses[k].kind \in {"ConnectionError", "Timeout"}
  \/ Responses[k].status \notin 200..299

\* No response, or a response with a 4xx or 5xx status.
ErrorStatusFailure(k) ==
  \/ Responses[k].kind \in {"ConnectionError", "Timeout"}
  \/ Responses[k].status \in 400..599

\* What the claim says of a submit whose call got answer lastRun'.out.
FallbackAppended ==
  LET fallback == IF Class(lastRun'.out) = "body_invalid_json" THEN InvalidText
                                                                ELSE SorryText
  IN  /\ lastRun'.ret = Returned(fallback, CallerId)
      /\ lastRun'.exc = "none"
      /\ session' = session
      /\ \E prompt \in Prompts :
           chat_memory' =
             [chat_memory EXCEPT ![session.id] =
                @ \o <<Message("user", Str(prompt)),
                       Message("assistant", fallback)>>]

C3_PayloadExtracted ==
  (lastRun.op = "submit" /\ Class(lastRun.out) \in {"direct", "wrapped"})
  => LET P == Payloads[Responses[lastRun.out].p]
     IN  lastRun.ret =
           Returned(IF P.response = <<>> THEN NoContentText ELSE P.response[1],
                    IF P.session_id = <<>> THEN CallerId ELSE P.session_id[1])

C3_Witness ==
  /\ lastRun.op = "submit"
  /\ Class(lastRun.out) = "wrapped"
  /\ Responses[lastRun.out].p = 1
  /\ lastRun.ret = Returned(Str("X"), Str("S2"))

\* C4: every submit, whatever the gateway answers, ends with a message
\* appended to the transcript and no exception left uncaught.
C4_EverySubmitEndsWithMessage ==
  lastRun.op = "submit"
  => /\ lastRun.exc = "none"
     /\ chat_memory[session.id][Len(chat_memory[session.id])].role = "assistant"

\* C5: a switch to a name that no session of the history list has leaves
\* the active session and the history list as they were and raises nothing.
C5_SwitchMissChangesNothing ==
  [][(lastRun'.op = "switch" /\ ~lastRun'.hit)
     => /\ session' = session
        /\ previous_sessions' = previous_sessions
        /\ lastRun'.exc = "none"]_vars

C5_Witness ==
  /\ lastRun.op = "switch"
  /\ ~lastRun.hit
  /\ Len(previous_sessions) >= 2
  /\ session \notin Range(previous_sessions)

\* C6: each New Chat names its session with a counter strictly greater than
\* the counter of every earlier New Chat.
C6_CounterStrictlyIncreasing ==
  [][NewChatStep => Counter(session'.name) > maxCounter]_vars

\* C7: every session that has been the active one is the active session, is
\* in the history list, or was evicted as the oldest history entry.
C7_SessionsOnlyLostByEviction ==
  \A n \in 0..(nextId - 1) :
    \/ uuid4(n) = session.id
    \/ uuid4(n) \in Ids(previous_sessions)
    \/ uuid4(n) \in evicted

\* C8: every operation leaves each stored transcript a prefix of what is
\* stored for the same id afterwards, and a transcript it creates is empty.
C8_TranscriptsGrowByAppending ==
  [][/\ \A id \in DOMAIN chat_memory :
          /\ id \in DOMAIN chat_memory'
          /\ IsPrefix(chat_memory[id], chat_memory'[id])
     /\ \A id \in DOMAIN chat_memory' \ DOMAIN chat_memory :
          chat_memory'[id] = <<>>]_vars

C8_Witness ==
  /\ lastRun.op = "switch"
  /\ session.id = uuid4(0)
  /\ Len(chat_memory[uuid4(0)]) = 2
  /\ Len(chat_memory[uuid4(1)]) = 2

\* C9: each submit appends the user message and then the assistant message
\* with the reply to the active session's transcript and changes nothing
\* else; every transcript has even length and alternates user, assistant.
C9_SubmitAppendsUserThenAssistant ==
  /\ [][SubmitStep
        => /\ \E prompt \in Prompts :
                chat_memory' =
                  [chat_memory EXCEPT ![session.id] =
                     @ \o <<Message("user", Str(prompt)),
                            Message("assistant", lastRun'.ret.text)>>]
           /\ session' = session
           /\ previous_sessions' = previous_sessions]_vars
  /\ [](\A id \in DOMAIN chat_memory :
          /\ Len(chat_memory[id]) % 2 = 0
          /\ \A i \in 1..Len(chat_memory[id]) :
               chat_memory[id][i].role =
                 IF i % 2 = 1 THEN "user" ELSE "assistant")

\* C10: no two entries of the history list have the same id.
C10_HistoryIdsDistinct ==
  \A i, j \in 1..Len(previous_sessions) :
    previous_sessions[i].id = previous_sessions[j].id => i = j

\* A New Chat pressed while an archived session was the active one.
C10_Witness ==
  /\ lastRun.op = "new"
  /\ Len(previous_sessions) >= 2
  /\ \E i \in 1..Len(previous_sessions) :
       /\ previous_sessions[i].id = uuid4(0)
       /\ i < Len(previous_sessions)
  /\ nextId > Len(previous_sessions) + 1

====
